---- MODULE Spec2Model ----
(***************************************************************************)
(* grid_search of sklearn_evaluation/plot/grid_search.py: one call, from   *)
(* the validation of `change` to the calls issued on the axes.             *)
(*                                                                         *)
(* Parameter values are naturals, or None (NoneVal).  Scores are naturals  *)
(* (tenths).  Strings that are compared or built by the code (labels) are  *)
(* sequences of character codes; parameter names are the strings "n", "k". *)
(* A dict is a sequence of [k, v] entries in insertion order.              *)
(***************************************************************************)
EXTENDS Integers, Sequences, FiniteSets, TLC

\* ------------------------------------------------------------------ bounds
MaxRecs == 3
MaxChangeLen == 3

\* ------------------------------------------------------------------ values
NoneVal == -1

Names == {"n", "k"}
NVals == {1, 2}
KVals == {9, 10, NoneVal}

\* the scores of the i-th entry of cv_results_ (distinct per position)
MeanAt(i) == 4 + i
StdAt(i) == i

\* a record of grid_scores (the namedtuple gs)
gs(p, m, s) == [parameters |-> p, mean_validation_score |-> m, std_test_score |-> s]

\* parameter mappings with both keys, and mappings that omit "n"
FullParams == {[x \in Names |-> IF x = "n" THEN a ELSE b] : a \in NVals, b \in KVals}
PartialParams == {[x \in {"k"} |-> b] : b \in KVals}

\* ------------------------------------------------------------------ strings
NameChars(name) ==
    CASE name = "n" -> <<110>>
      [] name = "k" -> <<107>>
      [] OTHER -> <<122>>

RECURSIVE Digits(_)
Digits(v) == IF v < 10 THEN <<48 + v>> ELSE Digits(v \div 10) \o <<48 + (v % 10)>>

\* str(value), as "{}".format renders it
Str(v) == IF v = NoneVal THEN <<78, 111, 110, 101>> ELSE Digits(v)

\* Python's str comparison a < b
StrLess(a, b) ==
    \E i \in 1..(Len(a) + 1) :
        /\ i <= Len(b)
        /\ \A j \in 1..(i - 1) : a[j] = b[j]
        /\ (i = Len(a) + 1 \/ a[i] < b[i])

StrLeq(a, b) == a = b \/ StrLess(a, b)

\* ", ".join(parts)
RECURSIVE Join(_)
Join(parts) ==
    IF Len(parts) = 0 THEN <<>>
    ELSE IF Len(parts) = 1 THEN parts[1]
    ELSE parts[1] \o <<44, 32>> \o Join(Tail(parts))

\* label of a group key: "{}: {}".format(*t) for each pair, joined
Label(params_kv) ==
    Join([i \in 1..Len(params_kv) |->
            NameChars(params_kv[i][1]) \o <<58, 32>> \o Str(params_kv[i][2])])

\* ------------------------------------------------------------------ util helpers
\* _get_params_value(keys)(obj): the tuple of (name, value) pairs of obj
GetParamsValue(keys, obj) == [i \in 1..Len(keys) |-> <<keys[i], obj.parameters[keys[i]]>>]

HasKey(d, key) == \E i \in 1..Len(d) : d[i].k = key

\* res[key].append(element)
DictAppend(d, key, element) ==
    IF HasKey(d, key)
    THEN [i \in 1..Len(d) |-> IF d[i].k = key
                              THEN [k |-> key, v |-> Append(d[i].v, element)]
                              ELSE d[i]]
    ELSE Append(d, [k |-> key, v |-> <<element>>])

\* _group_by(data, _get_params_value(keys))
RECURSIVE GroupByFrom(_, _, _, _)
GroupByFrom(data, keys, i, res) ==
    IF i > Len(data) THEN res
    ELSE GroupByFrom(data, keys, i + 1, DictAppend(res, GetParamsValue(keys, data[i]), data[i]))

GroupBy(data, keys) == GroupByFrom(data, keys, 1, <<>>)

\* _mapping_to_tuple_pairs(subset): every combination of one listed value per key
MappingToTuplePairs(subset) ==
    {[i \in 1..Len(subset) |-> <<subset[i].k, f[i]>>] :
        f \in {g \in [1..Len(subset) -> UNION {subset[i].v : i \in 1..Len(subset)}] :
                  \A i \in 1..Len(subset) : g[i] \in subset[i].v}}

\* the entries whose labels are L, ordered alphabetically by label (a stable sort)
OrderByLabels(d, L) ==
    [p \in 1..Len(d) |->
        d[CHOOSE i \in 1..Len(d) :
            Cardinality({j \in 1..Len(d) :
                           StrLess(L[j], L[i]) \/ (L[j] = L[i] /\ j < i)}) = p - 1]]

SortByLabel(d) == OrderByLabels(d, [i \in 1..Len(d) |-> Label(d[i].k)])

\* _sorted_map_iter(d, sort)
SortedMapIter(d, sort) == IF sort THEN SortByLabel(d) ELSE d

\* _flatten_list(groups.values())
RECURSIVE FlattenValues(_)
FlattenValues(d) == IF Len(d) = 0 THEN <<>> ELSE d[1].v \o FlattenValues(Tail(d))

\* {k: v for k, v in it if k in keys}
FilterKeys(it, keys) == SelectSeq(it, LAMBDA e : e.k \in keys)

\* ------------------------------------------------------------------ arguments
\* `change`: None, a string ("z" names no parameter), or a list or tuple of
\* parameter names
ChangeArgs ==
    {[tag |-> "none", names |-> <<>>]}
    \cup {[tag |-> "str", names |-> <<x>>] : x \in Names \cup {"z"}}
    \cup {[tag |-> t, names |-> s] :
            t \in {"list", "tuple"},
            s \in UNION {[1..l -> Names] : l \in 0..MaxChangeLen}}

\* `subset`: None or a dict from parameter names to listed values
NoSubset == [given |-> FALSE, items |-> <<>>]
Dict(items) == [given |-> TRUE, items |-> items]
SubsetArgs ==
    {NoSubset, Dict(<<>>),
     Dict(<<[k |-> "k", v |-> {9}]>>),
     Dict(<<[k |-> "k", v |-> {3}]>>),
     Dict(<<[k |-> "k", v |-> KVals]>>),
     Dict(<<[k |-> "n", v |-> NVals]>>),
     Dict(<<[k |-> "n", v |-> NVals], [k |-> "k", v |-> KVals]>>),
     Dict(<<[k |-> "k", v |-> {9, NoneVal}], [k |-> "n", v |-> {2}]>>)}

SubsetKeys(subset) == [i \in 1..Len(subset.items) |-> subset.items[i].k]

\* cv_results_: parallel params / mean_test_score / std_test_score arrays.
\* Every mapping has the keys "n" and "k", except that a mapping may omit
\* the varied parameter of a call with change = "n".
ParamsFor(chg) ==
    IF chg.tag = "str" /\ chg.names = <<"n">>
    THEN FullParams \cup PartialParams
    ELSE FullParams

CvResults(chg) == UNION {[1..l -> ParamsFor(chg)] : l \in 1..MaxRecs}

\* the keys every record has
CommonKeys(recs) == {x \in Names : \A i \in 1..Len(recs) : x \in DOMAIN recs[i].parameters}

\* ------------------------------------------------------------------ state
VARIABLES
    pc,           \* position in grid_search
    change,       \* argument
    ax,           \* argument: "None" or an Axes; the Axes of plt.subplots() after line 76
    cv_results_,  \* argument, as records (<<>> until read)
    subset,       \* argument
    sort,         \* argument
    kind,         \* argument
    grid_scores,  \* local of grid_search, then of the path taken
    params,       \* _grid_search_single: non-varied parameter names
    groups,       \* _grid_search_single: dict of groups
    series,       \* series handed to errorbar / bar_shifter, in order
    heat,         \* _grid_search_double: row_names, col_names, matrix, texts
    calls,        \* methods called on the axes / pyplot for the plot
    err           \* the exception raised, "" if none

vars == <<pc, change, ax, cv_results_, subset, sort, kind, grid_scores, params,
          groups, series, heat, calls, err>>

NoHeat == [row_names |-> <<>>, col_names |-> <<>>, row_labels |-> <<>>, col_labels |-> <<>>,
           matrix |-> <<>>, texts |-> {}]

Init ==
    /\ pc = "start"
    /\ change \in ChangeArgs
    /\ ax \in {"None", "Axes"}
    /\ cv_results_ = <<>>
    /\ subset = NoSubset
    /\ sort = TRUE
    /\ kind = "line"
    /\ grid_scores = <<>>
    /\ params = {}
    /\ groups = <<>>
    /\ series = <<>>
    /\ heat = NoHeat
    /\ calls = <<>>
    /\ err = ""

\* the exceptions: the ValueErrors by their message, the others by their type
ErrNone == "change can't be None"
ErrLength == "change must have length 1 or 2 or be a string"
ErrUnhashable == "TypeError: unhashable type"
ErrInvalid == "is not a valid parameter"
ErrSubset == "Your subset didn't match any data"
ErrKey == "KeyError"
ErrSame == "You need to pass two different parameters"
ErrAmbiguous == "More than one result matched your criteria"

Raise(e) == pc' = "error" /\ err' = e

\* ------------------------------------------------------------------ grid_search
CheckNoneSkipped ==
    /\ pc = "start"
    /\ pc' = "checked"
    /\ UNCHANGED <<change, ax, cv_results_, subset, sort, kind, grid_scores, params,
                   groups, series, heat, calls, err>>

\* lines 67-73
CheckNone ==
    /\ pc = "start"
    /\ IF change.tag = "none"
       THEN Raise(ErrNone)
       ELSE pc' = "checked" /\ err' = err
    /\ UNCHANGED <<change, ax, cv_results_, subset, sort, kind, grid_scores, params,
                   groups, series, heat, calls>>

\* lines 75-76
CreateAxes ==
    /\ pc = "checked"
    /\ ax' = IF ax = "None" THEN "Axes" ELSE ax
    /\ pc' = "axes"
    /\ UNCHANGED <<change, cv_results_, subset, sort, kind, grid_scores, params,
                   groups, series, heat, calls, err>>

\* lines 84-102: grid_scores is built, then the call is dispatched on change
BuildAndDispatch ==
    /\ pc = "axes"
    /\ \E ps \in CvResults(change) :
          /\ cv_results_' = [i \in 1..Len(ps) |-> gs(ps[i], MeanAt(i), StdAt(i))]
          /\ grid_scores' = cv_results_'
    /\ IF change.tag = "str" \/ Len(change.names) = 1
       THEN pc' = "single" /\ err' = err
       ELSE IF Len(change.names) = 2
       THEN pc' = "double" /\ err' = err
       ELSE Raise(ErrLength)
    /\ UNCHANGED <<change, ax, subset, sort, kind, params, groups, series, heat, calls>>

\* ------------------------------------------------------------------ _grid_search_single
\* iteration of a set of names (line 131, 143)
SetToSeq(S) ==
    CHOOSE s \in [1..Cardinality(S) -> S] : \A i, j \in 1..Cardinality(S) : i # j => s[i] # s[j]

\* params.remove(change) finds change: only a string equals a key
InParams(chg, keys) == chg.tag = "str" /\ chg.names[1] \in keys

\* lines 111-119
SingleRemove ==
    /\ pc = "single"
    /\ LET keys == DOMAIN grid_scores[1].parameters IN
       IF change.tag = "list"
       THEN Raise(ErrUnhashable) /\ params' = keys
       ELSE IF ~InParams(change, keys)
       THEN Raise(ErrInvalid) /\ params' = keys
       ELSE /\ params' = keys \ {change.names[1]}
            /\ pc' = "s_group"
            /\ err' = err
    /\ UNCHANGED <<change, ax, cv_results_, subset, sort, kind, grid_scores, groups,
                   series, heat, calls>>

\* lines 127-129 and 191-193: the groups of the records that subset keeps
SubsetNoFilter(scores, sub, srt) == SortedMapIter(GroupBy(scores, SubsetKeys(sub)), srt)
SubsetFilter(scores, sub, srt) ==
    FilterKeys(SortedMapIter(GroupBy(scores, SubsetKeys(sub)), srt),
               MappingToTuplePairs(sub.items))

\* lines 124-143: the (grid_scores, groups) the single path goes on with
SingleGroups(scores, sub, srt, ps) ==
    IF sub.given /\ sub.items # <<>>
    THEN CHOOSE r \in {[grid_scores |-> kept, groups |-> GroupBy(kept, SetToSeq(ps))] :
                          kept \in {FlattenValues(SubsetFilter(scores, sub, srt))}} : TRUE
    ELSE [grid_scores |-> scores, groups |-> GroupBy(scores, SetToSeq(ps))]

SingleGroup ==
    /\ pc = "s_group"
    /\ \E sub \in SubsetArgs, srt \in BOOLEAN :
          /\ \A i \in 1..Len(sub.items) : sub.items[i].k \in CommonKeys(grid_scores)
          /\ subset' = sub
          /\ sort' = srt
          /\ \E r \in {SingleGroups(grid_scores, sub, srt, params)} :
             /\ grid_scores' = r.grid_scores
             /\ groups' = r.groups
             /\ IF sub.given /\ sub.items # <<>> /\ r.groups = <<>>
                THEN Raise(ErrSubset)
                ELSE pc' = "s_plot" /\ err' = err
    /\ UNCHANGED <<change, ax, cv_results_, kind, params, heat, series, calls>>

\* element.parameters[change] raises KeyError
Lacks(element, chg) == chg.names[1] \notin DOMAIN element.parameters

\* lines 154-161: x, y, stds and label of one group
SeriesOf(entry, chg) ==
    [label |-> Label(entry.k),
     x |-> [i \in 1..Len(entry.v) |-> entry.v[i].parameters[chg.names[1]]],
     y |-> [i \in 1..Len(entry.v) |-> entry.v[i].mean_validation_score],
     stds |-> [i \in 1..Len(entry.v) |-> entry.v[i].std_test_score]]

\* lines 151-161: the series of the groups, in the order given
AllSeries(it, chg) == [i \in 1..Len(it) |-> SeriesOf(it[i], chg)]

\* line 151: the order in which the groups are plotted
PlotOrderUnsorted(grps, srt) == grps
PlotOrder(grps, srt) == SortedMapIter(grps, srt)

\* lines 163-173: the calls that plot one series
SeriesCalls(knd) == IF knd = "bar" THEN <<"bar">> ELSE <<"errorbar", "set_xticks">>

\* lines 175-180
SingleFinishCalls == <<"set_xticklabels", "set_title", "set_ylabel", "set_xlabel", "legend", "margins">>

RECURSIVE Repeat(_, _)
Repeat(s, n) == IF n = 0 THEN <<>> ELSE s \o Repeat(s, n - 1)

\* lines 145-181
SinglePlot ==
    /\ pc = "s_plot"
    /\ \E knd \in {"line", "bar"} :
          /\ kind' = knd
          /\ \E it \in {PlotOrder(groups, sort)} :
             LET bad == {i \in 1..Len(it) : \E j \in 1..Len(it[i].v) : Lacks(it[i].v[j], change)}
                 stop == IF bad = {} THEN Len(it) + 1
                         ELSE CHOOSE i \in bad : \A j \in bad : i <= j
             IN
             IF knd = "bar" /\ \E j \in 1..Len(grid_scores) : Lacks(grid_scores[j], change)
             THEN \* line 146
                  Raise(ErrKey) /\ UNCHANGED <<series, calls>>
             ELSE /\ series' = [i \in 1..(stop - 1) |-> SeriesOf(it[i], change)]
                  /\ IF bad # {}
                     THEN \* line 154
                          /\ Raise(ErrKey)
                          /\ calls' = Repeat(SeriesCalls(knd), stop - 1)
                     ELSE /\ calls' = Repeat(SeriesCalls(knd), stop - 1) \o SingleFinishCalls
                          /\ pc' = "done"
                          /\ err' = err
    /\ UNCHANGED <<change, ax, cv_results_, subset, sort, grid_scores, params, groups, heat>>

\* ------------------------------------------------------------------ _grid_search_double
\* lines 185-187
DoubleDistinct ==
    /\ pc = "double"
    /\ IF Cardinality({change.names[i] : i \in 1..Len(change.names)}) = 1
       THEN Raise(ErrSame)
       ELSE pc' = "d_filter" /\ err' = err
    /\ UNCHANGED <<change, ax, cv_results_, subset, sort, kind, grid_scores, params,
                   groups, series, heat, calls>>

\* lines 189-201
DoubleFilter ==
    /\ pc = "d_filter"
    /\ \E sub \in SubsetArgs, srt \in BOOLEAN :
          /\ subset' = sub
          /\ sort' = srt
          /\ ~sub.given => srt
          /\ IF sub.given
             THEN \E kept \in {SubsetFilter(grid_scores, sub, srt)} :
                  /\ grid_scores' = FlattenValues(kept)
                  /\ IF kept = <<>>
                     THEN Raise(ErrSubset)
                     ELSE pc' = "d_matrix" /\ err' = err
             ELSE /\ grid_scores' = grid_scores
                  /\ pc' = "d_matrix"
                  /\ err' = err
    /\ UNCHANGED <<change, ax, cv_results_, kind, params, groups, series, heat, calls>>

\* the sort key (x[1] is None, x[1]) of lines 223, 226
NameBefore(a, b) ==
    \/ a[2] # NoneVal /\ b[2] = NoneVal
    \/ a[2] # NoneVal /\ b[2] # NoneVal /\ a[2] < b[2]

\* sorted(set(...), key=...)
RECURSIVE SortedNames(_)
SortedNames(S) ==
    IF S = {} THEN <<>>
    ELSE LET a == CHOOSE a \in S : \A b \in S \ {a} : NameBefore(a, b)
         IN <<a>> \o SortedNames(S \ {a})

\* lines 222-224: the axis of the rows
RowNames(elems) == SortedNames({elems[i].k[1] : i \in 1..Len(elems)})

\* lines 225-227: the axis of the columns
ColNames(elems) == SortedNames({elems[i].k[2] : i \in 1..Len(elems)})

\* lines 234-235: position of a name on its axis, from 0
Coord(names, name) == (CHOOSE i \in 1..Len(names) : names[i] = name) - 1

\* line 239: m, from (column index, row index) to the record
CellMap(elems) ==
    LET rows == RowNames(elems)
        cols == ColNames(elems)
    IN {[x |-> Coord(cols, elems[i].k[2]), y |-> Coord(rows, elems[i].k[1]), v |-> elems[i].v] :
          i \in 1..Len(elems)}

MatrixTransposed(elems) ==
    LET m == CellMap(elems) IN
    [i \in 0..(Len(RowNames(elems)) - 1) |->
        [j \in 0..(Len(ColNames(elems)) - 1) |->
            IF \E c \in m : c.x = i /\ c.y = j
            THEN (CHOOSE c \in m : c.x = i /\ c.y = j).v.mean_validation_score
            ELSE 0]]

\* lines 241-244: np.zeros((rows, cols)), then matrix[i][j] for every (j, i) of m
Matrix(elems) ==
    LET m == CellMap(elems) IN
    [i \in 0..(Len(RowNames(elems)) - 1) |->
        [j \in 0..(Len(ColNames(elems)) - 1) |->
            IF \E c \in m : c.x = j /\ c.y = i
            THEN (CHOOSE c \in m : c.x = j /\ c.y = i).v.mean_validation_score
            ELSE 0]]

\* "{:.3}".format(score) of a score in tenths
Fmt3(v) == Digits(v \div 10) \o <<46>> \o Digits(v % 10)

\* lines 253-255: ax.text(x, y, label)
Texts(elems) ==
    {[x |-> c.x, y |-> c.y, label |-> Fmt3(c.v.mean_validation_score)] : c \in CellMap(elems)}

\* lines 247-248: "{}={}".format(*x)
TickLabels(names) ==
    [i \in 1..Len(names) |-> NameChars(names[i][1]) \o <<61>> \o Str(names[i][2])]

\* lines 250-262
DoubleCalls(n) ==
    <<"imshow">> \o Repeat(<<"text">>, n)
    \o <<"set_xticks", "set_xticklabels", "set_yticks", "set_yticklabels", "colorbar",
         "tight_layout">>

\* line 204: the names the records are grouped by, first the rows' then the columns'
MatrixKeysSwapped(chg) == <<chg.names[2], chg.names[1]>>
MatrixKeys(chg) == chg.names

\* lines 206-207: some pair of values has more than one record
AmbiguousOverTwo(matrix_elements) ==
    \E i \in 1..Len(matrix_elements) : Len(matrix_elements[i].v) > 2
Ambiguous(matrix_elements) ==
    \E i \in 1..Len(matrix_elements) : Len(matrix_elements[i].v) > 1

\* line 217: {k: v[0] for k, v in matrix_elements.items()}
FirstOfEach(matrix_elements) ==
    [i \in 1..Len(matrix_elements) |->
        [k |-> matrix_elements[i].k, v |-> matrix_elements[i].v[1]]]

\* lines 219-255: what is handed to imshow, text and the tick setters
HeatOf(elems) ==
    [row_names |-> RowNames(elems),
     col_names |-> ColNames(elems),
     row_labels |-> TickLabels(RowNames(elems)),
     col_labels |-> TickLabels(ColNames(elems)),
     matrix |-> Matrix(elems),
     texts |-> Texts(elems)]

\* lines 203-263
DoubleMatrix ==
    /\ pc = "d_matrix"
    /\ \E matrix_elements \in {GroupBy(grid_scores, MatrixKeys(change))} :
       IF Ambiguous(matrix_elements)
       THEN Raise(ErrAmbiguous) /\ UNCHANGED <<heat, calls>>
       ELSE \E elems \in {FirstOfEach(matrix_elements)} :
               /\ heat' = HeatOf(elems)
               /\ calls' = DoubleCalls(Cardinality(CellMap(elems)))
               /\ pc' = "done"
               /\ err' = err
    /\ UNCHANGED <<change, ax, cv_results_, subset, sort, kind, grid_scores, params,
                   groups, series>>

\* ------------------------------------------------------------------ specification
Next ==
    \/ CheckNone
    \/ CreateAxes
    \/ BuildAndDispatch
    \/ SingleRemove
    \/ SingleGroup
    \/ SinglePlot
    \/ DoubleDistinct
    \/ DoubleFilter
    \/ DoubleMatrix

Spec == Init /\ [][Next]_vars

\* ------------------------------------------------------------------ properties
SinglePath == change.tag = "str" \/ Len(change.names) = 1
DoublePath == change.tag # "str" /\ Len(change.names) = 2

Records(scores) == {scores[i] : i \in 1..Len(scores)}

\* rec has, for every key of sub, a value among those listed for the key
Matches(rec, sub) ==
    \A i \in 1..Len(sub.items) : rec.parameters[sub.items[i].k] \in sub.items[i].v

\* a < b on an axis: ascending values, None last
AxisBefore(a, b) == a # NoneVal /\ (b = NoneVal \/ a < b)

Ascending(names) ==
    \A i, j \in 1..Len(names) : i < j => AxisBefore(names[i][2], names[j][2])

C2_MatrixCells ==
    (DoublePath /\ pc = "done") =>
        LET rows == heat.row_names
            cols == heat.col_names
            At(i, j) == {r \in Records(grid_scores) :
                            /\ r.parameters[change.names[1]] = rows[i + 1][2]
                            /\ r.parameters[change.names[2]] = cols[j + 1][2]}
        IN /\ Len(rows) = Cardinality({r.parameters[change.names[1]] : r \in Records(grid_scores)})
           /\ Len(cols) = Cardinality({r.parameters[change.names[2]] : r \in Records(grid_scores)})
           /\ Ascending(rows)
           /\ Ascending(cols)
           /\ DOMAIN heat.matrix = 0..(Len(rows) - 1)
           /\ \A i \in 0..(Len(rows) - 1) :
                 /\ DOMAIN heat.matrix[i] = 0..(Len(cols) - 1)
                 /\ \A j \in 0..(Len(cols) - 1) :
                       /\ At(i, j) = {} => heat.matrix[i][j] = 0
                       /\ \A r \in At(i, j) : heat.matrix[i][j] = r.mean_validation_score
                       /\ At(i, j) # {} <=> \E t \in heat.texts : t.x = j /\ t.y = i

C2_Witness ==
    /\ pc = "done"
    /\ change.names = <<"n", "k">>
    /\ heat.col_names = <<(<<"k", 9>>), (<<"k", 10>>), (<<"k", NoneVal>>)>>
    /\ Len(heat.row_names) = 2
    /\ heat.matrix[0][0] = 5
    /\ heat.matrix[0][1] = 0
    /\ Cardinality(heat.texts) = 3

\* two kept records share their pair of values of the two varied parameters
SharedPair(scores) ==
    \E i, j \in 1..Len(scores) :
        /\ i # j
        /\ scores[i].parameters[change.names[1]] = scores[j].parameters[change.names[1]]
        /\ scores[i].parameters[change.names[2]] = scores[j].parameters[change.names[2]]

\* C3: in the two-parameter path, a pair of values shared by two kept
\* records ends the call with the ambiguity error and no call on the axes;
\* the ambiguity error is raised in no other case.
C3_Ambiguity ==
    DoublePath =>
        /\ pc = "done" => ~SharedPair(grid_scores)
        /\ err = ErrAmbiguous =>
              /\ SharedPair(grid_scores)
              /\ pc = "error"
              /\ calls = <<>>
              /\ heat = NoHeat

C3_Witness ==
    /\ err = ErrAmbiguous
    /\ subset.given
    /\ Len(grid_scores) < Len(cv_results_)

\* C4: change = None is rejected before an axes is created or a record is
\* built; a collection of length 0 or more than 2 and a pair of equal names
\* are rejected and nothing is drawn.
C4_ChangeRejected ==
    /\ change.tag = "none" =>
          /\ pc \in {"start", "error"}
          /\ pc = "error" => err = ErrNone
          /\ cv_results_ = <<>> /\ grid_scores = <<>> /\ calls = <<>>
    /\ (change.tag # "str" /\ change.tag # "none" /\ Len(change.names) \notin {1, 2}) =>
          /\ pc \in {"start", "checked", "axes", "error"}
          /\ pc = "error" => err = ErrLength
          /\ calls = <<>>
    /\ (DoublePath /\ change.names[1] = change.names[2]) =>
          /\ pc \in {"start", "checked", "axes", "double", "error"}
          /\ pc = "error" => err = ErrSame
          /\ calls = <<>>
    /\ err = ErrNone => change.tag = "none"

C4_Witness ==
    /\ err = ErrNone
    /\ ax = "None"
    /\ cv_results_ = <<>>

\* C5: in both paths, when a subset is given and no record matches it the
\* call ends with the subset error before any plotting call; otherwise the
\* records that go on to be grouped are exactly the matching ones.
C5_SubsetFilter ==
    /\ err = ErrSubset =>
          /\ subset.given
          /\ \A r \in Records(cv_results_) : ~Matches(r, subset)
          /\ calls = <<>> /\ series = <<>> /\ heat = NoHeat
    /\ (subset.given /\ err # ErrSubset) =>
          /\ Records(grid_scores) = {r \in Records(cv_results_) : Matches(r, subset)}
          /\ Len(grid_scores) = Cardinality(Records(grid_scores))
          /\ grid_scores # <<>>
          /\ SinglePath => Records(FlattenValues(groups)) = Records(grid_scores)

C5_Witness ==
    /\ err = ErrSubset
    /\ SinglePath
    /\ Len(cv_results_) = 2

\* C6: in the single-parameter path (here: called without subset) the call
\* ends with the invalid-parameter error exactly when some record, the first
\* or a later one, lacks the parameter named by change.
C6_InvalidParameter ==
    (change.tag = "str" /\ pc \in {"done", "error"} /\ ~subset.given) =>
        (err = ErrInvalid <=>
            \E r \in Records(cv_results_) : change.names[1] \notin DOMAIN r.parameters)

C8_SubsetRoundTrip ==
    (pc = "done" /\ subset.given /\ \A r \in Records(cv_results_) : Matches(r, subset)) =>
        /\ SinglePath =>
              series = AllSeries(PlotOrder(GroupBy(cv_results_, SetToSeq(params)), sort), change)
        /\ DoublePath =>
              heat = HeatOf(FirstOfEach(GroupBy(cv_results_, MatrixKeys(change))))

\* the records of cv_results_ that are in group g, in input order
InputOrder(g) == SelectSeq(cv_results_, LAMBDA r : r \in Records(g.v))

\* C9: in the single-parameter path every kept record is in exactly one
\* group, two records share a group iff they agree on every parameter other
\* than the varied one, and the series of a group lists its records in input
\* encounter order.
C9_GroupsInInputOrder ==
    (SinglePath /\ pc = "done") =>
        /\ \A r \in Records(grid_scores) :
              Cardinality({g \in 1..Len(groups) : r \in Records(groups[g].v)}) = 1
        /\ \A r1, r2 \in Records(grid_scores) :
              (\E g \in 1..Len(groups) : {r1, r2} \subseteq Records(groups[g].v))
              <=> (\A q \in Names \ {change.names[1]} : r1.parameters[q] = r2.parameters[q])
        /\ Len(series) = Len(groups)
        /\ \A g \in 1..Len(groups) :
              \E i \in 1..Len(series) :
                  series[i] = SeriesOf([k |-> groups[g].k, v |-> InputOrder(groups[g])], change)

\* C10: a list or tuple of one parameter name is handled as the name itself:
\* the call does not fail on the selector.
C10_SingletonSelector ==
    (change.tag \in {"list", "tuple"} /\ Len(change.names) = 1) =>
        err \notin {ErrUnhashable, ErrInvalid}

====
